---- MODULE Spec2Model ----
(***************************************************************************)
(* Model of the MQT dashboard: the collection run of data_collection.py    *)
(* (registry, three fetchers, one CSV write) and the presentation code of  *)
(* visualization.py / app.py that reads the CSV back.                      *)
(***************************************************************************)
EXTENDS Integers, Sequences, FiniteSets, TLC

VARIABLES
    file,          \* rows of data/mqt.csv (<< >> while the file does not exist)
    now,           \* the wall clock, in units of 60 s
    pc,            \* position of the collection process
    timestamp,     \* collect_data: local `timestamp`
    i,             \* collect_data: 1-based position of `repo` in `repos`
    data,          \* collect_data: local `data`
    github_data,   \* collect_data: local `github_data`
    downloads_data,\* get_pypi_data: local `downloads_data`
    pepy_response, \* get_pepy_data: local `pepy_response`
    pepy_ret,      \* outcome of the current get_pepy_data call
    n429,          \* 429 answers received by the current get_pepy_data call
    slept,         \* time.sleep(60) calls made by the current get_pepy_data call
    calls,         \* HTTP requests issued by the current run, in order (a retry
                   \* repeats the request logged last and is not logged again)
    fileAtStart,   \* content of the file when the current run started
    response       \* what the step just taken handed to the web client

vars == <<file, now, pc, timestamp, i, data, github_data, downloads_data,
          pepy_response, pepy_ret, n429, slept, calls, fileAtStart, response>>

runVars == <<pc, timestamp, i, data, github_data, downloads_data,
             pepy_response, pepy_ret, n429, slept, calls, fileAtStart>>

-----------------------------------------------------------------------------
(* Bounds of the model.                                                     *)

\* number of registry entries a run iterates over (taken from Tracked)
NumRepos == 3
\* last clock value; also bounds the 429 answers the aggregate service gives
MaxClock == 2
\* number of rows of a historical dataset handed to the presentation code
MaxRows == 3

-----------------------------------------------------------------------------
(* Representation of missing values.  Counts are non-negative, so negative *)
(* integers stand for the three forms a missing count takes.               *)

\* Python None in a row dict
None == -1
\* the empty field pandas writes for a missing value
EmptyCell == -2
\* the NaN pandas reads an empty field as
NaN == -3

notnull(x) == x \notin {None, NaN}

\* dict.get(key, default)
Get(d, key, default) == IF key \in DOMAIN d THEN d[key] ELSE default

RECURSIVE SumSeq(_)
SumSeq(s) == IF s = << >> THEN 0 ELSE Head(s) + SumSeq(Tail(s))

-----------------------------------------------------------------------------
(* The registry.                                                            *)

registry == <<
    [github_repo |-> "core", org |-> "munich-quantum-toolkit", pypi_package |-> "mqt-core"],
    [github_repo |-> "ddsim", org |-> "munich-quantum-toolkit", pypi_package |-> "mqt-ddsim"],
    [github_repo |-> "qmap", org |-> "munich-quantum-toolkit", pypi_package |-> "mqt-qmap"],
    [github_repo |-> "qcec", org |-> "munich-quantum-toolkit", pypi_package |-> "mqt-qcec"],
    [github_repo |-> "qecc", org |-> "munich-quantum-toolkit", pypi_package |-> "mqt-qecc"],
    [github_repo |-> "bench", org |-> "munich-quantum-toolkit", pypi_package |-> "mqt-bench"],
    [github_repo |-> "predictor", org |-> "munich-quantum-toolkit", pypi_package |-> "mqt-predictor"],
    [github_repo |-> "syrec", org |-> "munich-quantum-toolkit", pypi_package |-> "mqt-syrec"],
    [github_repo |-> "qusat", org |-> "munich-quantum-toolkit", pypi_package |-> "mqt-qusat"],
    [github_repo |-> "debugger", org |-> "munich-quantum-toolkit", pypi_package |-> "mqt-debugger"],
    [github_repo |-> "yaqs", org |-> "munich-quantum-toolkit", pypi_package |-> "mqt-yaqs"],
    [github_repo |-> "naviz", org |-> "munich-quantum-toolkit"],
    [github_repo |-> "problemsolver", org |-> "munich-quantum-toolkit", pypi_package |-> "mqt-problemsolver"],
    [github_repo |-> "qudits", org |-> "munich-quantum-toolkit", pypi_package |-> "mqt-qudits"],
    [github_repo |-> "ddvis", org |-> "munich-quantum-toolkit"],
    [github_repo |-> "workflows", org |-> "munich-quantum-toolkit"],
    [github_repo |-> "templates", org |-> "munich-quantum-toolkit"],
    [github_repo |-> ".github", org |-> "munich-quantum-toolkit"],
    [github_repo |-> "mqt-qao", org |-> "cda-tum", pypi_package |-> "mqt-qao"],
    [github_repo |-> "mqt-planqk", org |-> "cda-tum"],
    [github_repo |-> "mqt-qubomaker", org |-> "cda-tum", pypi_package |-> "mqt-qubomaker"],
    [github_repo |-> "mqt-ion-shuttler", org |-> "cda-tum", pypi_package |-> "mqt-ionshuttler"],
    [github_repo |-> "mqt-dasqa", org |-> "cda-tum"] >>

\* The registry positions the model iterates over, in registry order: two
\* repositories without a package (ddvis among them), the packaged one whose
\* package name differs from its repository name, and one more without.
Tracked == <<12, 15, 22, 23>>

\* `repos` as the loop of collect_data sees it, cut to NumRepos entries
repos == [k \in 1..NumRepos |-> registry[Tracked[k]]]

\* "pypi_package" in repo
HasPackage(repo) == "pypi_package" \in DOMAIN repo

\* a plausible slip: the package is looked up under the repository's name
PypiName_github(repo) == repo.github_repo

\* repo["pypi_package"]
PypiName(repo) == repo.pypi_package

-----------------------------------------------------------------------------
(* What the three services may answer.  An answer is the decoded JSON body  *)
(* unless stated otherwise; a request may also fail outright (see the      *)
(* ...Fails actions).                                                       *)

\* answers to GET /repos/{org}/{repo} and GET /repos/{org}/{repo}/releases/latest
GithubReplies == {
    [data |-> [stargazers_count |-> 100],
     version_data |-> [tag_name |-> "v1.0", published_at |-> "2024-03-05T10:00:00Z"]],
    [data |-> [message |-> "Not Found"],
     version_data |-> [message |-> "Not Found"]] }

\* answers to GET /packages/{package}/recent
PypistatsReplies == {
    [data |-> [last_day |-> 10, last_week |-> 70, last_month |-> 300]],
    [message |-> "Not Found"] }

\* answers to GET /projects/{package}: status, whether the body is JSON, the JSON
PepyReplies == {
    [status_code |-> 200, decodes |-> TRUE, json |-> [total_downloads |-> 5000]],
    [status_code |-> 404, decodes |-> TRUE, json |-> [message |-> "not found"]],
    [status_code |-> 429, decodes |-> TRUE, json |-> [message |-> "rate limited"]],
    [status_code |-> 502, decodes |-> FALSE, json |-> [message |-> ""]] }

NoReply == [status_code |-> 0, decodes |-> FALSE, json |-> [message |-> ""]]

\* outcomes of a get_pepy_data call
NotCalled == [kind |-> "not_called"]
Running == [kind |-> "running"]
Raised == [kind |-> "raised"]
Returned(v) == [kind |-> "returned", value |-> v]

Request(api, path) == [api |-> api, path |-> path]

-----------------------------------------------------------------------------
(* data_collection.py                                                       *)

\* a plausible slip: a rate-limited answer is taken like any other
IsRateLimited_never(resp) == FALSE

\* pepy_response.status_code == 429
IsRateLimited(resp) == resp.status_code = 429

\* the dict get_github_data returns
GithubData(reply) ==
    [stars |-> Get(reply.data, "stargazers_count", 0),
     latest_release_version |-> Get(reply.version_data, "tag_name", "No release"),
     published_at |-> Get(reply.version_data, "published_at", "No release")]

\* the dict get_pypi_data returns
PypiData(dd, pepy_data) ==
    [daily_downloads |-> Get(dd, "last_day", 0),
     weekly_downloads |-> Get(dd, "last_week", 0),
     monthly_downloads |-> Get(dd, "last_month", 0),
     total_downloads |-> Get(pepy_data, "total_downloads", 0)]

\* a plausible slip: zeros instead of None
NoPackageData_zero ==
    [daily_downloads |-> 0, weekly_downloads |-> 0,
     monthly_downloads |-> 0, total_downloads |-> 0]

\* the dict collect_data uses for a repository without "pypi_package"
NoPackageData ==
    [daily_downloads |-> None, weekly_downloads |-> None,
     monthly_downloads |-> None, total_downloads |-> None]

\* a plausible slip: the clock is read again for every row
RowTimestamp_now(ts, clock) == clock

\* "timestamp": timestamp
RowTimestamp(ts, clock) == ts

\* the dict appended to `data`
Row(ts, repo_identifier, gh, pypi_data) ==
    [timestamp |-> ts,
     repo |-> repo_identifier,
     stars |-> gh.stars,
     latest_release_version |-> gh.latest_release_version,
     published_at |-> gh.published_at,
     daily_downloads |-> pypi_data.daily_downloads,
     weekly_downloads |-> pypi_data.weekly_downloads,
     monthly_downloads |-> pypi_data.monthly_downloads,
     total_downloads |-> pypi_data.total_downloads]

\* where the loop goes after the row of repos[k] is appended
AfterAppend(k) == IF k < Len(repos) THEN "get_github_data" ELSE "to_csv"

\* how pandas writes a count: a missing value becomes an empty field
CsvCell(x) == IF x \in {None, NaN} THEN EmptyCell ELSE x

\* how pandas reads a count: an empty field becomes NaN
ParseCell(x) == IF x = EmptyCell THEN NaN ELSE x

\* pd.DataFrame(rows).to_csv("data/mqt.csv"): the row index is written as a
\* leading column, the datetime as text that parses back to the same instant
to_csv(rows) ==
    [k \in 1..Len(rows) |->
        [index |-> k - 1,
         timestamp |-> rows[k].timestamp,
         repo |-> rows[k].repo,
         stars |-> CsvCell(rows[k].stars),
         latest_release_version |-> rows[k].latest_release_version,
         published_at |-> rows[k].published_at,
         daily_downloads |-> CsvCell(rows[k].daily_downloads),
         weekly_downloads |-> CsvCell(rows[k].weekly_downloads),
         monthly_downloads |-> CsvCell(rows[k].monthly_downloads),
         total_downloads |-> CsvCell(rows[k].total_downloads)]]

\* a plausible slip: what was collected so far is saved when a fetch raises
FileOnException_save(f, rows) == IF rows = << >> THEN f ELSE to_csv(rows)

\* collect_data has no try/except/finally: an exception leaves the file alone
FileOnException(f, rows) == f

NoResponse == [kind |-> "none"]

\* collect_data(), up to the loop
StartRun ==
    /\ pc = "idle"
    /\ data' = << >>
    /\ timestamp' = now
    /\ i' = 1
    /\ pc' = IF Len(repos) = 0 THEN "to_csv" ELSE "get_github_data"
    /\ calls' = << >>
    /\ fileAtStart' = file
    /\ github_data' = GithubData([data |-> << >>, version_data |-> << >>])
    /\ downloads_data' = << >>
    /\ pepy_response' = NoReply
    /\ pepy_ret' = NotCalled
    /\ n429' = 0
    /\ slept' = 0
    /\ response' = NoResponse
    /\ UNCHANGED <<file, now>>

\* the exception of a fetcher propagates out of collect_data
Raise ==
    /\ pc' = "raised"
    /\ file' = FileOnException(file, data)
    /\ response' = NoResponse
    /\ UNCHANGED <<now, timestamp, i, data, fileAtStart>>

\* data.append({...}) and the next iteration
AppendRow(row) ==
    /\ data' = Append(data, row)
    /\ i' = i + 1
    /\ pc' = AfterAppend(i)

GithubRequests(repo) ==
    << Request("github", <<repo.org, repo.github_repo>>),
       Request("github_release", <<repo.org, repo.github_repo>>) >>

\* get_github_data(repo_org, repo_name) and, for a repository without a
\* package, the rest of the loop body
GetGithubData ==
    /\ pc = "get_github_data"
    /\ \E reply \in GithubReplies :
        LET repo == repos[i]
            gh == GithubData(reply)
        IN  /\ github_data' = gh
            /\ calls' = calls \o GithubRequests(repo)
            /\ IF HasPackage(repo)
               THEN /\ pc' = "get_pypi_data"
                    /\ UNCHANGED <<data, i>>
               ELSE AppendRow(Row(RowTimestamp(timestamp, now), repo.github_repo,
                               gh, NoPackageData))
    /\ downloads_data' = << >>
    /\ pepy_response' = NoReply
    /\ pepy_ret' = NotCalled
    /\ n429' = 0
    /\ slept' = 0
    /\ response' = NoResponse
    /\ UNCHANGED <<file, now, timestamp, fileAtStart>>

\* requests.get or response.json() raises in get_github_data, at the first
\* or at the second request
GetGithubDataFails ==
    /\ pc = "get_github_data"
    /\ \E n \in 1..2 : calls' = calls \o SubSeq(GithubRequests(repos[i]), 1, n)
    /\ Raise
    /\ UNCHANGED <<github_data, downloads_data, pepy_response, pepy_ret, n429, slept>>

\* get_pypi_data(pypi_name), up to the call of get_pepy_data
GetPypiData ==
    /\ pc = "get_pypi_data"
    /\ \E downloads \in PypistatsReplies :
        downloads_data' = Get(downloads, "data", << >>)
    /\ calls' = Append(calls, Request("pypistats", <<PypiName(repos[i])>>))
    /\ pc' = "get_pepy_data"
    /\ pepy_response' = NoReply
    /\ pepy_ret' = Running
    /\ n429' = 0
    /\ slept' = 0
    /\ response' = NoResponse
    /\ UNCHANGED <<file, now, timestamp, i, data, github_data, fileAtStart>>

\* requests.get or downloads_response.json() raises in get_pypi_data
GetPypiDataFails ==
    /\ pc = "get_pypi_data"
    /\ calls' = Append(calls, Request("pypistats", <<PypiName(repos[i])>>))
    /\ Raise
    /\ UNCHANGED <<github_data, downloads_data, pepy_response, pepy_ret, n429, slept>>

\* requests.get(pepy_url, ...): the first attempt of a call is logged
LogPepy(log, retries, package) ==
    IF retries = 0 THEN Append(log, Request("pepy", <<package>>)) ELSE log

\* one iteration of the loop of get_pepy_data; on `break`, the return of
\* get_pepy_data and get_pypi_data and the rest of the loop body
GetPepyData ==
    /\ pc = "get_pepy_data"
    /\ calls' = LogPepy(calls, n429, PypiName(repos[i]))
    /\ \E reply \in PepyReplies :
        /\ pepy_response' = reply
        /\ IF IsRateLimited(reply)
           THEN \* time.sleep(60), then the next iteration
                /\ now < MaxClock
                /\ now' = now + 1
                /\ n429' = n429 + 1
                /\ slept' = slept + 1
                /\ UNCHANGED <<file, pc, timestamp, i, data, pepy_ret, fileAtStart>>
           ELSE IF reply.decodes
           THEN /\ pepy_ret' = Returned(reply.json)
                /\ AppendRow(Row(RowTimestamp(timestamp, now), PypiName(repos[i]), github_data,
                              PypiData(downloads_data, reply.json)))
                /\ UNCHANGED <<file, now, timestamp, n429, slept, fileAtStart>>
           ELSE \* pepy_response.json() raises
                /\ pepy_ret' = Raised
                /\ Raise
                /\ UNCHANGED <<n429, slept>>
    /\ response' = NoResponse
    /\ UNCHANGED <<github_data, downloads_data>>

\* requests.get raises in get_pepy_data
GetPepyDataFails ==
    /\ pc = "get_pepy_data"
    /\ calls' = LogPepy(calls, n429, PypiName(repos[i]))
    /\ pepy_ret' = Raised
    /\ Raise
    /\ UNCHANGED <<github_data, downloads_data, pepy_response, n429, slept>>

\* repo_data = pd.DataFrame(data); repo_data.to_csv("data/mqt.csv")
ToCsv ==
    /\ pc = "to_csv"
    /\ file' = to_csv(data)
    /\ pc' = "done"
    /\ response' = NoResponse
    /\ UNCHANGED <<now, timestamp, i, data, github_data, downloads_data,
                   pepy_response, pepy_ret, n429, slept, calls, fileAtStart>>

\* main() returns, or the exception ends the process: the locals are gone
Exit ==
    /\ pc \in {"done", "raised"}
    /\ pc' = "idle"
    /\ timestamp' = 0
    /\ i' = 1
    /\ data' = << >>
    /\ github_data' = GithubData([data |-> << >>, version_data |-> << >>])
    /\ downloads_data' = << >>
    /\ pepy_response' = NoReply
    /\ pepy_ret' = NotCalled
    /\ n429' = 0
    /\ slept' = 0
    /\ calls' = << >>
    /\ fileAtStart' = << >>
    /\ response' = NoResponse
    /\ UNCHANGED <<file, now>>

\* time passes between two runs (within a run it passes in time.sleep)
Tick ==
    /\ pc = "idle"
    /\ now < MaxClock
    /\ now' = now + 1
    /\ response' = NoResponse
    /\ UNCHANGED <<file, runVars>>

-----------------------------------------------------------------------------
(* visualization.py                                                         *)

\* Strings cannot be compared by < in the model: the identifiers that occur,
\* in the order Python sorts them
NameOrder == << ".github", "All Repos", "core", "ddvis", "mqt-core", "mqt-core2",
                "mqt-dasqa", "mqt-ion-shuttler", "mqt-ionshuttler", "naviz" >>

NameRank(name) == CHOOSE k \in 1..Len(NameOrder) : NameOrder[k] = name

\* the tenths of count/unit, as the format spec .1f rounds them (the counts of
\* the model are never halfway between two tenths)
Tenths(count, unit) == (count * 10 + unit \div 2) \div unit

OneDecimal(count, unit, suffix) ==
    ToString(Tenths(count, unit) \div 10) \o "." \o
    ToString(Tenths(count, unit) % 10) \o suffix

format_count(count) ==
    IF count >= 1000000 THEN OneDecimal(count, 1000000, "m")
    ELSE IF count >= 1000 THEN OneDecimal(count, 1000, "k")
    ELSE ToString(count)

\* pd.read_csv("data/mqt.csv", parse_dates=["timestamp"]): the index column
\* comes back as the column "Unnamed: 0", empty fields as NaN
read_csv(f) ==
    [k \in 1..Len(f) |->
        [Unnamed0 |-> f[k].index,
         timestamp |-> f[k].timestamp,
         repo |-> f[k].repo,
         stars |-> ParseCell(f[k].stars),
         latest_release_version |-> f[k].latest_release_version,
         published_at |-> f[k].published_at,
         daily_downloads |-> ParseCell(f[k].daily_downloads),
         weekly_downloads |-> ParseCell(f[k].weekly_downloads),
         monthly_downloads |-> ParseCell(f[k].monthly_downloads),
         total_downloads |-> ParseCell(f[k].total_downloads)]]

\* the distinct values of a sequence of names, sorted
SortedNames(names) ==
    LET present == {k \in 1..Len(NameOrder) : \E j \in DOMAIN names : names[j] = NameOrder[k]}
        nth[n \in 0..Cardinality(present)] ==
            IF n = 0 THEN 0 ELSE CHOOSE k \in present :
                /\ k > nth[n - 1]
                /\ \A m \in present : m > nth[n - 1] => k <= m
    IN  [n \in 1..Cardinality(present) |-> NameOrder[nth[n]]]

\* the rows of one repository, in the order of the frame
RowsOf(df, repo) == SelectSeq(df, LAMBDA r : r.repo = repo)

\* GroupBy.last() on a numeric column: the last value that is not null
LastNotNull(rows, col) ==
    LET ks == {k \in DOMAIN rows : notnull(rows[k][col])}
    IN  IF ks = {} THEN NaN
        ELSE rows[CHOOSE k \in ks : \A m \in ks : m <= k][col]

\* a plausible slip: first() instead of last()
FirstNotNull(rows, col) ==
    LET ks == {k \in DOMAIN rows : notnull(rows[k][col])}
    IN  IF ks = {} THEN NaN
        ELSE rows[CHOOSE k \in ks : \A m \in ks : k <= m][col]

\* one row per group: the first that is not null of every column
GroupRow_first(rows) ==
    [repo |-> rows[1].repo,
     Unnamed0 |-> FirstNotNull(rows, "Unnamed0"),
     timestamp |-> FirstNotNull(rows, "timestamp"),
     stars |-> FirstNotNull(rows, "stars"),
     latest_release_version |-> rows[1].latest_release_version,
     published_at |-> rows[1].published_at,
     daily_downloads |-> FirstNotNull(rows, "daily_downloads"),
     weekly_downloads |-> FirstNotNull(rows, "weekly_downloads"),
     monthly_downloads |-> FirstNotNull(rows, "monthly_downloads"),
     total_downloads |-> FirstNotNull(rows, "total_downloads")]

\* GroupBy.last() on the rows of one repository: column by column the last
\* value that is not null (the text columns of the model are never null)
GroupRow(rows) ==
    [repo |-> rows[1].repo,
     Unnamed0 |-> LastNotNull(rows, "Unnamed0"),
     timestamp |-> LastNotNull(rows, "timestamp"),
     stars |-> LastNotNull(rows, "stars"),
     latest_release_version |-> rows[Len(rows)].latest_release_version,
     published_at |-> rows[Len(rows)].published_at,
     daily_downloads |-> LastNotNull(rows, "daily_downloads"),
     weekly_downloads |-> LastNotNull(rows, "weekly_downloads"),
     monthly_downloads |-> LastNotNull(rows, "monthly_downloads"),
     total_downloads |-> LastNotNull(rows, "total_downloads")]

\* df.groupby("repo").last().reset_index(): the groups come sorted by key
GroupbyLast(df) ==
    LET keys == SortedNames([k \in DOMAIN df |-> df[k].repo])
    IN  [g \in 1..Len(keys) |-> GroupRow(RowsOf(df, keys[g]))]

\* pd.to_datetime(..., errors="coerce") followed by strftime("%d %B %Y"), on
\* the publication dates the model's GitHub answers carry
ParsedDates ==
    [x \in {"2024-03-05T10:00:00Z", "2024-06-17T08:30:00Z"} |->
        IF x = "2024-03-05T10:00:00Z" THEN "05 March 2024" ELSE "17 June 2024"]

FormatPublished(x) ==
    IF x \in DOMAIN ParsedDates THEN ParsedDates[x] ELSE "No release"

\* lambda x: format_count(x) if pd.notnull(x) else "N/A"
FormatDownloads(x) == IF notnull(x) THEN format_count(x) ELSE "N/A"

\* the orders sort_values(by=col, ascending=False) may leave the rows in: the
\* default sort (quicksort) is not stable, so rows with equal keys come in
\* any order; rows with a null key are put last, in the order of the frame
SortOrders(rows, col) ==
    LET n == Len(rows)
        null(k) == ~notnull(rows[k][col])
    IN  {p \in [1..n -> 1..n] :
            /\ \A a, b \in 1..n : a # b => p[a] # p[b]
            /\ \A a, b \in 1..n : a < b =>
                  \/ null(p[b]) /\ (null(p[a]) => p[a] < p[b])
                  \/ ~null(p[a]) /\ ~null(p[b]) /\ rows[p[a]][col] >= rows[p[b]][col]}

\* the rows create_summary_table hands to to_html, before they are sorted
SummaryRows(latest_data) ==
    [k \in DOMAIN latest_data |->
        [Repository |-> latest_data[k].repo,
         Unnamed0 |-> latest_data[k].Unnamed0,
         Stars |-> latest_data[k].stars,
         LatestReleaseVersion |-> latest_data[k].latest_release_version,
         PublishedAt |-> FormatPublished(latest_data[k].published_at),
         DailyDownloads |-> FormatDownloads(latest_data[k].daily_downloads),
         WeeklyDownloads |-> FormatDownloads(latest_data[k].weekly_downloads),
         MonthlyDownloads |-> FormatDownloads(latest_data[k].monthly_downloads),
         TotalDownloads |-> FormatDownloads(latest_data[k].total_downloads)]]

\* the tables create_summary_table may return for a file
create_summary_table(f) ==
    LET rows == SummaryRows(GroupbyLast(read_csv(f)))
    IN  {[k \in DOMAIN rows |-> rows[p[k]]] : p \in SortOrders(rows, "Stars")}

\* sum() of a column, NaN skipped
SumCol(rows, col) ==
    SumSeq([k \in DOMAIN rows |-> IF notnull(rows[k][col]) THEN rows[k][col] ELSE 0])

\* df.groupby(['timestamp', 'repo']).sum().reset_index(): the keys that
\* occur, sorted by timestamp and then by repo, with the sums of their rows
DailyData(df) ==
    LET keys == {<<df[k].timestamp, NameRank(df[k].repo)>> : k \in DOMAIN df}
        Before(a, b) == a[1] < b[1] \/ (a[1] = b[1] /\ a[2] < b[2])
        pos(key) == 1 + Cardinality({o \in keys : Before(o, key)})
        at(n) == CHOOSE key \in keys : pos(key) = n
        group(key) == SelectSeq(df, LAMBDA r : r.timestamp = key[1] /\ NameRank(r.repo) = key[2])
    IN  [n \in 1..Cardinality(keys) |->
            [timestamp |-> at(n)[1],
             repo |-> NameOrder[at(n)[2]],
             stars |-> SumCol(group(at(n)), "stars"),
             total_downloads |-> SumCol(group(at(n)), "total_downloads")]]

\* daily_data.groupby('timestamp').sum() with repo set to "All Repos"
SumData(daily) ==
    LET stamps == {daily[k].timestamp : k \in DOMAIN daily}
        at(n) == CHOOSE t \in stamps : Cardinality({o \in stamps : o < t}) = n - 1
        group(t) == SelectSeq(daily, LAMBDA r : r.timestamp = t)
    IN  [n \in 1..Cardinality(stamps) |->
            [timestamp |-> at(n),
             repo |-> "All Repos",
             stars |-> SumCol(group(at(n)), "stars"),
             total_downloads |-> SumCol(group(at(n)), "total_downloads")]]

\* Series.unique(): the values in the order they first appear
RECURSIVE Unique(_)
Unique(names) ==
    IF names = << >> THEN << >>
    ELSE LET init == Unique(SubSeq(names, 1, Len(names) - 1))
             last == names[Len(names)]
         IN  IF \E k \in DOMAIN init : init[k] = last THEN init ELSE Append(init, last)

\* go.Scatter(x=repo_data["timestamp"], y=repo_data[col], name=...)
Trace(daily, repo, col, name) ==
    LET repo_data == SelectSeq(daily, LAMBDA r : r.repo = repo)
    IN  [name |-> name,
         x |-> [k \in DOMAIN repo_data |-> repo_data[k].timestamp],
         y |-> [k \in DOMAIN repo_data |-> repo_data[k][col]]]

\* the traces of fig1, fig2 and fig3 (layout and colours are not modelled)
create_plots(f) ==
    LET df == read_csv(f)
        daily_data == DailyData(df) \o SumData(DailyData(df))
        unique == Unique([k \in DOMAIN daily_data |-> daily_data[k].repo])
        stars == SelectSeq(unique, LAMBDA repo : repo # "All Repos")
        downloads == SelectSeq(unique, LAMBDA repo : repo # "All Repos" /\ repo # "mqt-ddvis")
    IN  [fig1 |-> [k \in DOMAIN stars |->
                      Trace(daily_data, stars[k], "stars", stars[k] \o " Stars")],
         fig2 |-> [k \in DOMAIN downloads |->
                      Trace(daily_data, downloads[k], "total_downloads",
                            downloads[k] \o " Downloads")],
         fig3 |-> << Trace(daily_data, "All Repos", "stars", "Total Stars"),
                     Trace(daily_data, "All Repos", "total_downloads", "Total Downloads") >>]

\* create_summary_cards, which app.py imports from visualization.py: the
\* latest state by stars and by downloads, and the two totals
create_summary_cards(f) ==
    LET df == read_csv(f)
        latest_data == GroupbyLast(df)
        cards == [k \in DOMAIN latest_data |->
                    [repo |-> latest_data[k].repo,
                     stars |-> latest_data[k].stars,
                     sort_downloads |-> latest_data[k].total_downloads,
                     total_downloads |-> FormatDownloads(latest_data[k].total_downloads)]]
    IN  {[sorted_by_stars |-> [k \in DOMAIN cards |-> cards[p[k]]],
          sorted_by_downloads |-> [k \in DOMAIN cards |-> cards[q[k]]],
          total_stars |-> SumCol(latest_data, "stars"),
          total_downloads |-> SumCol(df, "total_downloads")] :
            p \in SortOrders(cards, "stars"), q \in SortOrders(cards, "sort_downloads")}

\* The presentation calls are modelled one at a time, between two runs: a
\* call reads the file once, and the file changes in ToCsv only.

\* pd.read_csv raises when data/mqt.csv does not exist
ServerError == [kind |-> "error"]

\* a call of create_summary_table()
CreateSummaryTable ==
    /\ pc = "idle"
    /\ response = NoResponse
    /\ IF file = << >>
       THEN response' = ServerError
       ELSE \E t \in create_summary_table(file) :
                response' = [kind |-> "table", table |-> t]
    /\ UNCHANGED <<file, now, runVars>>

\* a call of create_plots()
CreatePlots ==
    /\ pc = "idle"
    /\ response = NoResponse
    /\ IF file = << >>
       THEN response' = ServerError
       ELSE response' = [kind |-> "plots", figs |-> create_plots(file)]
    /\ UNCHANGED <<file, now, runVars>>

\* app.py: GET /
Index ==
    /\ pc = "idle"
    /\ response = NoResponse
    /\ IF file = << >>
       THEN response' = ServerError
       ELSE \E c \in create_summary_cards(file) :
                response' = [kind |-> "index", cards |-> c]
    /\ UNCHANGED <<file, now, runVars>>

Present ==
    \/ CreateSummaryTable
    \/ CreatePlots
    \/ Index

Init ==
    /\ file = << >>
    /\ now = 0
    /\ pc = "idle"
    /\ timestamp = 0
    /\ i = 1
    /\ data = << >>
    /\ github_data = GithubData([data |-> << >>, version_data |-> << >>])
    /\ downloads_data = << >>
    /\ pepy_response = NoReply
    /\ pepy_ret = NotCalled
    /\ n429 = 0
    /\ slept = 0
    /\ calls = << >>
    /\ fileAtStart = << >>
    /\ response = NoResponse

Collect ==
    \/ StartRun
    \/ GetGithubData
    \/ GetGithubDataFails
    \/ GetPypiData
    \/ GetPypiDataFails
    \/ GetPepyData
    \/ GetPepyDataFails
    \/ ToCsv
    \/ Exit
    \/ Tick

Next == Collect \/ Present

Spec == Init /\ [][Next]_vars

-----------------------------------------------------------------------------
(* The presentation code alone, on a dataset with history: the file holds   *)
(* rows of several collection runs, in any order.                           *)

\* the metrics one snapshot of the history may carry
Snapshots == {
    [gh |-> [stars |-> 100, latest_release_version |-> "v1.0",
             published_at |-> "2024-03-05T10:00:00Z"],
     pypi |-> [daily_downloads |-> 10, weekly_downloads |-> 70,
               monthly_downloads |-> 300, total_downloads |-> 5000]],
    [gh |-> [stars |-> 150, latest_release_version |-> "v1.1",
             published_at |-> "2024-06-17T08:30:00Z"],
     pypi |-> [daily_downloads |-> 20, weekly_downloads |-> 90,
               monthly_downloads |-> 400, total_downloads |-> 6000]],
    [gh |-> [stars |-> 50, latest_release_version |-> "No release",
             published_at |-> "No release"],
     pypi |-> NoPackageData] }

HistoryRows ==
    {Row(ts, repo, s.gh, s.pypi) : ts \in 1..2, repo \in {"mqt-core", "mqt-core2"},
                                   s \in Snapshots}

Datasets == UNION {[1..n -> HistoryRows] : n \in 0..MaxRows}

InitView ==
    /\ file \in {to_csv(d) : d \in Datasets}
    /\ now = 2
    /\ pc = "idle"
    /\ timestamp = 0
    /\ i = 1
    /\ data = << >>
    /\ github_data = GithubData([data |-> << >>, version_data |-> << >>])
    /\ downloads_data = << >>
    /\ pepy_response = NoReply
    /\ pepy_ret = NotCalled
    /\ n429 = 0
    /\ slept = 0
    /\ calls = << >>
    /\ fileAtStart = << >>
    /\ response = NoResponse

NextView == Present

SpecView == InitView /\ [][NextView]_vars

-----------------------------------------------------------------------------
(* Properties.                                                              *)

\* the metrics of a row of the file, without the index column
Snapshot(r) ==
    [timestamp |-> r.timestamp, repo |-> r.repo, stars |-> r.stars,
     latest_release_version |-> r.latest_release_version,
     published_at |-> r.published_at,
     daily_downloads |-> r.daily_downloads, weekly_downloads |-> r.weekly_downloads,
     monthly_downloads |-> r.monthly_downloads, total_downloads |-> r.total_downloads]

Snapshots_of(f) == {Snapshot(f[k]) : k \in DOMAIN f}

DownloadFields ==
    {"daily_downloads", "weekly_downloads", "monthly_downloads", "total_downloads"}

\* C1: every row that is in the file before a step is in it, with the same
\* values, after the step (the row set of the dataset only grows).
C1_PriorRowsPreserved ==
    [][Snapshots_of(file) \subseteq Snapshots_of(file')]_vars

\* C5 (its second half): when two runs are made one after the other, the file
\* holds the rows of both once the second is done.
C5_SequentialRunsKeepBoth ==
    pc = "done" =>
        /\ Snapshots_of(fileAtStart) \subseteq Snapshots_of(file)
        /\ Snapshots_of(to_csv(data)) \subseteq Snapshots_of(file)

\* C4: a run that a fetcher's failure aborts leaves the file as it was when
\* the run started; the file differs from that only once the run is done,
\* and then it was written from the rows of all repositories.
C4_AbortLeavesFile ==
    /\ pc = "raised" => file = fileAtStart /\ Len(data) < Len(repos)
    /\ pc \notin {"idle", "done"} => file = fileAtStart
    /\ pc = "done" => Len(data) = Len(repos) /\ file = to_csv(data)

C4_Witness ==
    /\ pc = "raised"
    /\ Len(data) >= 1
    /\ fileAtStart # << >>

\* the requests a run makes for one registry entry
EntryCalls(e) ==
    << [api |-> "github", path |-> <<e.org, e.github_repo>>],
       [api |-> "github_release", path |-> <<e.org, e.github_repo>>] >> \o
    (IF "pypi_package" \in DOMAIN e
     THEN << [api |-> "pypistats", path |-> <<e.pypi_package>>],
             [api |-> "pepy", path |-> <<e.pypi_package>>] >>
     ELSE << >>)

RECURSIVE RunCalls(_)
RunCalls(n) == IF n = 0 THEN << >> ELSE RunCalls(n - 1) \o EntryCalls(repos[n])

EntryIdentifier(e) ==
    IF "pypi_package" \in DOMAIN e THEN e.pypi_package ELSE e.github_repo

IsPrefix(s, t) == Len(s) <= Len(t) /\ s = SubSeq(t, 1, Len(s))

\* C8: a run issues its requests entry by entry in registry order, the two
\* source-host requests for every entry and the package-index and aggregate
\* requests exactly for the entries with a package identifier, under that
\* identifier; a run that completes has one row per entry, in that order.
C8_RegistryOrder ==
    /\ IsPrefix(calls, RunCalls(Len(repos)))
    /\ Len(data) <= Len(repos)
    /\ \A k \in DOMAIN data :
        /\ data[k].repo = EntryIdentifier(repos[k])
        /\ IsPrefix(RunCalls(k), calls)
    /\ pc \in {"to_csv", "done"} =>
        /\ Len(data) = Len(repos)
        /\ calls = RunCalls(Len(repos))
    /\ pc = "done" =>
        /\ Len(file) = Len(repos)
        /\ \A k \in DOMAIN file : file[k].repo = EntryIdentifier(repos[k])
    /\ \A k \in DOMAIN calls :
        calls[k].api \in {"pypistats", "pepy"} =>
            calls[k].path \notin {<<"naviz">>, <<"ddvis">>, <<"mqt-dasqa">>,
                                  <<"mqt-ion-shuttler">>}

C8_Witness ==
    /\ pc = "done"
    /\ \E k \in DOMAIN calls : calls[k] = [api |-> "pepy", path |-> <<"mqt-ionshuttler">>]
    /\ \E k \in DOMAIN file : file[k].repo = "ddvis"

\* C9: the rows of a run all carry the timestamp the run captured when it
\* started, whatever the clock shows when they are appended or written.
C9_OneTimestamp ==
    /\ timestamp <= now
    /\ \A k \in DOMAIN data : data[k].timestamp = timestamp
    /\ pc = "done" => \A k \in DOMAIN file : file[k].timestamp = timestamp

C9_Witness ==
    /\ pc = "done"
    /\ now > timestamp
    /\ Len(file) >= 2

\* the answer in pepy_response came from the service and is not a 429
AnsweredNot429 == pepy_response.status_code \notin {0, 429}

\* C3 as stated: a 429 is never returned, every 429 is followed by one sleep
\* and a retry, and the first answer that is not a 429 is returned to the
\* caller without an error.
C3_FirstNon429Returned ==
    /\ pepy_ret.kind = "returned" => pepy_response.status_code # 429 /\ slept = n429
    /\ pc = "get_pepy_data" =>
        pepy_ret = Running /\ slept = n429 /\ pepy_response.status_code \in {0, 429}
    /\ pepy_ret.kind \in {"returned", "raised"} /\ AnsweredNot429 =>
        pepy_ret = Returned(pepy_response.json)

\* C3 as amended: the first answer that is not a 429 ends the call; it is
\* returned without an error when its body is JSON, and the call raises when
\* it is not.
C3_FirstNon429EndsCall ==
    /\ pepy_ret.kind = "returned" =>
        /\ pepy_response.status_code # 429
        /\ pepy_response.decodes
        /\ pepy_ret.value = pepy_response.json
        /\ slept = n429
    /\ pc = "get_pepy_data" =>
        pepy_ret = Running /\ slept = n429 /\ pepy_response.status_code \in {0, 429}
    /\ pepy_ret.kind \in {"returned", "raised"} /\ AnsweredNot429 =>
        IF pepy_response.decodes
        THEN pepy_ret = Returned(pepy_response.json)
        ELSE pepy_ret = Raised

C3_Witness ==
    /\ pepy_ret.kind = "returned"
    /\ n429 >= 2
    /\ slept = 2

\* the identifiers of the registry entries without a package identifier
NoPackageIdentifiers ==
    {registry[k].github_repo : k \in {j \in DOMAIN registry :
                                        "pypi_package" \notin DOMAIN registry[j]}}

\* C6: the rows of an entry without a package identifier have no download
\* counts (None in the run, an empty field in the file, never 0), and the
\* summary table shows "N/A" in its four download columns.
C6_NoPackageNoDownloads ==
    /\ \A k \in DOMAIN data : data[k].repo \in NoPackageIdentifiers =>
        \A col \in DownloadFields : data[k][col] = None
    /\ \A k \in DOMAIN file : file[k].repo \in NoPackageIdentifiers =>
        \A col \in DownloadFields : file[k][col] = EmptyCell
    /\ response.kind = "table" =>
        \A k \in DOMAIN response.table :
            response.table[k].Repository \in NoPackageIdentifiers =>
                /\ response.table[k].DailyDownloads = "N/A"
                /\ response.table[k].WeeklyDownloads = "N/A"
                /\ response.table[k].MonthlyDownloads = "N/A"
                /\ response.table[k].TotalDownloads = "N/A"

C6_Witness ==
    /\ response.kind = "table"
    /\ \E k \in DOMAIN response.table : response.table[k].Repository = "ddvis"
    /\ \E k \in DOMAIN response.table : response.table[k].TotalDownloads # "N/A"

\* C10: the downloads figure has no series for the UI-only repository, one
\* for every other identifier of the file, and the stars figure one for
\* every identifier.
C10_DdvisHasNoDownloadSeries ==
    response.kind = "plots" =>
        LET ids == {file[k].repo : k \in DOMAIN file}
            names(fig) == {fig[k].name : k \in DOMAIN fig}
        IN  /\ names(response.figs.fig1) = {id \o " Stars" : id \in ids}
            /\ names(response.figs.fig2) = {id \o " Downloads" : id \in ids \ {"ddvis"}}

\* the rows of the file that belong to a repository
FileRowsOf(repo) == {k \in DOMAIN file : file[k].repo = repo}

\* the row a latest-state table must show for a row of the file
Rendered(r) ==
    [Repository |-> r.repo,
     Stars |-> r.stars,
     LatestReleaseVersion |-> r.latest_release_version,
     PublishedAt |-> IF r.published_at = "No release" THEN "No release"
                     ELSE ParsedDates[r.published_at],
     DailyDownloads |-> IF r.daily_downloads = EmptyCell THEN "N/A"
                        ELSE format_count(r.daily_downloads),
     WeeklyDownloads |-> IF r.weekly_downloads = EmptyCell THEN "N/A"
                         ELSE format_count(r.weekly_downloads),
     MonthlyDownloads |-> IF r.monthly_downloads = EmptyCell THEN "N/A"
                          ELSE format_count(r.monthly_downloads),
     TotalDownloads |-> IF r.total_downloads = EmptyCell THEN "N/A"
                        ELSE format_count(r.total_downloads)]

WithoutIndex(t) ==
    [Repository |-> t.Repository, Stars |-> t.Stars,
     LatestReleaseVersion |-> t.LatestReleaseVersion, PublishedAt |-> t.PublishedAt,
     DailyDownloads |-> t.DailyDownloads, WeeklyDownloads |-> t.WeeklyDownloads,
     MonthlyDownloads |-> t.MonthlyDownloads, TotalDownloads |-> t.TotalDownloads]

\* C2: for a repository with snapshots at T1 < T2, the latest-state table has
\* exactly one row, and it shows the T2 snapshot in every field, absent ones
\* included, wherever the rows stand in the file.
C2_LatestIsT2Row ==
    response.kind = "table" =>
        \A k1, k2 \in DOMAIN file :
            (/\ file[k1].repo = file[k2].repo
             /\ file[k1].timestamp < file[k2].timestamp
             /\ FileRowsOf(file[k2].repo) = {k1, k2}) =>
                LET shown == {k \in DOMAIN response.table :
                                response.table[k].Repository = file[k2].repo}
                IN  /\ Cardinality(shown) = 1
                    /\ \A k \in shown :
                        WithoutIndex(response.table[k]) = Rendered(file[k2])

\* the dataset of the end-to-end scenario
ScenarioFile ==
    LET s100 == CHOOSE s \in Snapshots : s.gh.stars = 100
        s150 == CHOOSE s \in Snapshots : s.gh.stars = 150
        s50 == CHOOSE s \in Snapshots : s.gh.stars = 50
    IN  to_csv(<< Row(1, "mqt-core", s100.gh, s100.pypi),
                  Row(2, "mqt-core", s150.gh, s150.pypi),
                  Row(1, "mqt-core2", s50.gh, s50.pypi) >>)

====
